---- MODULE Spec2Model ----
(***************************************************************************)
(* The greedy gnomes problem: greedy_gnomes_exhaustive and                 *)
(* greedy_gnomes_dyn_prog of gnomes_algs.hpp, run one after the other on   *)
(* the same grid.  The grid and path classes come from gnomes_types.hpp.   *)
(***************************************************************************)
EXTENDS Integers, Naturals, Sequences, FiniteSets, TLC

\* ---- bounds of the model ----
MaxDim == 3
MaxCells == 6
MaxGold == 1

\* the assertion bound of the exhaustive search (max_steps < 64)
StepLimit == 64

\* ---- gnomes_types.hpp: cells, grids, step directions, paths ----
CELL_ROCK == -1
STEP_DIRECTION_START == "START"
STEP_DIRECTION_RIGHT == "RIGHT"
STEP_DIRECTION_DOWN == "DOWN"

CellVals == {CELL_ROCK} \cup (0..MaxGold)

CellsOf(r, c) == (0..(r-1)) \X (0..(c-1))

Dims == {d \in (0..MaxDim) \X (0..MaxDim) : d[1] * d[2] <= MaxCells}

SmallGrids ==
  UNION {{[rows |-> d[1], columns |-> d[2], cells |-> f] :
            f \in [CellsOf(d[1], d[2]) -> CellVals]} : d \in Dims}

\* one grid too large for the exhaustive search: a single column with
\* rows + columns - 2 = StepLimit
OversizedGrid ==
  [rows |-> StepLimit + 1, columns |-> 1,
   cells |-> [p \in CellsOf(StepLimit + 1, 1) |-> p[1] % (MaxGold + 1)]]

Grids == SmallGrids \cup {OversizedGrid}

InGrid(g, r, c) == r >= 0 /\ r < g.rows /\ c >= 0 /\ c < g.columns

\* grid::get: the kind of cell (r,c), read as "is it a rock"
IsRock(g, r, c) == g.cells[<<r, c>>] = CELL_ROCK

\* the gold a path collects on cell (r,c): nothing on a rock
GoldAt(g, r, c) ==
  IF InGrid(g, r, c) /\ ~IsRock(g, r, c) THEN g.cells[<<r, c>>] ELSE 0

\* path::path(setting): head (0,0), no move yet, the start cell's gold
NewPath(g) == [row |-> 0, col |-> 0, steps |-> <<>>, gold |-> GoldAt(g, 0, 0)]

last_step(p) ==
  IF p.steps = <<>> THEN STEP_DIRECTION_START ELSE p.steps[Len(p.steps)]

total_gold(p) == p.gold

DestRow(p, dir) == IF dir = STEP_DIRECTION_DOWN THEN p.row + 1 ELSE p.row
DestCol(p, dir) == IF dir = STEP_DIRECTION_RIGHT THEN p.col + 1 ELSE p.col

is_step_valid(g, p, dir) ==
  /\ InGrid(g, DestRow(p, dir), DestCol(p, dir))
  /\ ~IsRock(g, DestRow(p, dir), DestCol(p, dir))

add_step(g, p, dir) ==
  [row |-> DestRow(p, dir), col |-> DestCol(p, dir),
   steps |-> Append(p.steps, dir),
   gold |-> p.gold + GoldAt(g, DestRow(p, dir), DestCol(p, dir))]

\* std::optional<path>: <<>> is nullopt, <<p>> holds p
nullopt == <<>>
has_value(o) == o # <<>>
Some(p) == <<p>>

\* ---- state ----
VARIABLES
  grid,        \* the grid both searches are called with
  pc,          \* position of the run
  len, bits,   \* exhaustive: the loop counters
  best,        \* exhaustive: best path so far
  cand,        \* exhaustive: the candidate built by the last iteration
  candLen,     \* exhaustive: the len that candidate was built for
  ncand,       \* exhaustive: number of candidates compared so far
  produced,    \* exhaustive: the move sequences of the candidates so far
  exhOutcome, exhResult,
  A,           \* dyn_prog: the table of optional paths
  i, j,        \* dyn_prog: the loop counters
  from_above, from_left,   \* dyn_prog: the locals of the last cell filled
  filled,      \* dyn_prog: the last cell filled with a non-rock, <<>> if none
  skipped,     \* dyn_prog: some is_step_valid check of the fill was false
  dbest,       \* dyn_prog: best of the post-processing scan
  dpOutcome, dpResult

vars == <<grid, pc, len, bits, best, cand, candLen, ncand, produced,
          exhOutcome, exhResult, A, i, j, from_above, from_left, filled,
          skipped, dbest, dpOutcome, dpResult>>

exhVars == <<len, bits, best, cand, candLen, ncand, produced, exhOutcome, exhResult>>
dpVars == <<A, i, j, from_above, from_left, filled, skipped, dbest, dpOutcome, dpResult>>

\* ---- greedy_gnomes_exhaustive ----
max_steps(g) == g.rows + g.columns - 2

\* variant of LastBits: the bits loop stops one pattern early
LastBitsMut(l) == 2^l - 2
\* the last value of bits for a given len: pow(2,len)-1
LastBits(l) == 2^l - 1

\* variant of Step: the move is added without the is_step_valid check
StepNoCheck(g, p, bit) ==
  IF bit = 1 THEN add_step(g, p, STEP_DIRECTION_RIGHT)
  ELSE add_step(g, p, STEP_DIRECTION_DOWN)
\* one iteration of the k loop: bit 1 moves right, bit 0 moves down, an
\* invalid move is skipped
Step(g, p, bit) ==
  IF bit = 1
  THEN IF is_step_valid(g, p, STEP_DIRECTION_RIGHT)
       THEN add_step(g, p, STEP_DIRECTION_RIGHT) ELSE p
  ELSE IF is_step_valid(g, p, STEP_DIRECTION_DOWN)
       THEN add_step(g, p, STEP_DIRECTION_DOWN) ELSE p

\* variant of BitOf: the shift is one too far
BitOfShifted(b, k) == (b \div (2^(k + 1))) % 2
\* (bits >> k) & 1
BitOf(b, k) == (b \div (2^k)) % 2

RECURSIVE Build(_, _, _, _, _)
Build(g, p, l, b, k) ==
  IF k >= l THEN p ELSE Build(g, Step(g, p, BitOf(b, k)), l, b, k + 1)

\* the candidate of (len, bits)
Candidate(g, l, b) == Build(g, NewPath(g), l, b, 0)

\* variant of Replaces: the comparison is reversed
ReplacesLess(b, c) ==
  last_step(b) = STEP_DIRECTION_START \/ total_gold(c) < total_gold(b)
\* the test that replaces best by the candidate
Replaces(b, c) ==
  last_step(b) = STEP_DIRECTION_START \/ total_gold(c) > total_gold(b)

ExhAssertFail ==
  /\ pc = "exh_start"
  /\ ~(grid.rows > 0 /\ grid.columns > 0 /\ max_steps(grid) < StepLimit)
  /\ exhOutcome' = "assert"
  /\ pc' = "dp_start"
  /\ UNCHANGED <<grid, len, bits, best, cand, candLen, ncand, produced, exhResult>>
  /\ UNCHANGED dpVars

ExhBegin ==
  /\ pc = "exh_start"
  /\ grid.rows > 0 /\ grid.columns > 0 /\ max_steps(grid) < StepLimit
  /\ best' = Some(NewPath(grid))
  /\ len' = 0 /\ bits' = 0
  /\ pc' = "exh_loop"
  /\ UNCHANGED <<grid, cand, candLen, ncand, produced, exhOutcome, exhResult>>
  /\ UNCHANGED dpVars

ExhCandidate ==
  /\ pc = "exh_loop"
  /\ len <= max_steps(grid)
  /\ bits <= LastBits(len)
  /\ LET candidate == Candidate(grid, len, bits) IN
       /\ cand' = Some(candidate)
       /\ candLen' = len
       /\ ncand' = ncand + 1
       /\ produced' = produced \cup {candidate.steps}
       /\ best' = IF Replaces(best[1], candidate) THEN Some(candidate) ELSE best
  /\ bits' = bits + 1
  /\ UNCHANGED <<grid, pc, len, exhOutcome, exhResult>>
  /\ UNCHANGED dpVars

\* the bits loop is over: next len
ExhNextLen ==
  /\ pc = "exh_loop"
  /\ len <= max_steps(grid)
  /\ bits > LastBits(len)
  /\ len' = len + 1
  /\ bits' = 0
  /\ UNCHANGED <<grid, pc, best, cand, candLen, ncand, produced, exhOutcome, exhResult>>
  /\ UNCHANGED dpVars

ExhReturn ==
  /\ pc = "exh_loop"
  /\ len > max_steps(grid)
  /\ exhResult' = best
  /\ exhOutcome' = "returned"
  /\ pc' = "dp_start"
  /\ UNCHANGED <<grid, len, bits, best, cand, candLen, ncand, produced>>
  /\ UNCHANGED dpVars

\* ---- greedy_gnomes_dyn_prog ----

\* A = new row x column matrix of nullopt, then A[0][0] = [start]
NewTable(g) ==
  [p \in CellsOf(g.rows, g.columns) |->
     IF p = <<0, 0>> THEN Some(NewPath(g)) ELSE nullopt]

\* variant of FromAbove: the left neighbour is read instead of the upper one
FromAboveWrong(g, T, r, c) ==
  IF c > 0 /\ has_value(T[<<r, c-1>>])
  THEN IF is_step_valid(g, T[<<r, c-1>>][1], STEP_DIRECTION_DOWN)
       THEN Some(add_step(g, T[<<r, c-1>>][1], STEP_DIRECTION_DOWN))
       ELSE T[<<r, c-1>>]
  ELSE nullopt
\* from_above = A[i-1][j] + [down], the step added only when it is valid
FromAbove(g, T, r, c) ==
  IF r > 0 /\ has_value(T[<<r-1, c>>])
  THEN IF is_step_valid(g, T[<<r-1, c>>][1], STEP_DIRECTION_DOWN)
       THEN Some(add_step(g, T[<<r-1, c>>][1], STEP_DIRECTION_DOWN))
       ELSE T[<<r-1, c>>]
  ELSE nullopt

\* from_left = A[i][j-1] + [right], the step added only when it is valid
FromLeft(g, T, r, c) ==
  IF c > 0 /\ has_value(T[<<r, c-1>>])
  THEN IF is_step_valid(g, T[<<r, c-1>>][1], STEP_DIRECTION_RIGHT)
       THEN Some(add_step(g, T[<<r, c-1>>][1], STEP_DIRECTION_RIGHT))
       ELSE T[<<r, c-1>>]
  ELSE nullopt

\* some is_step_valid check of the cell's fill is false
SkipsStep(g, T, r, c) ==
  \/ r > 0 /\ has_value(T[<<r-1, c>>])
       /\ ~is_step_valid(g, T[<<r-1, c>>][1], STEP_DIRECTION_DOWN)
  \/ c > 0 /\ has_value(T[<<r, c-1>>])
       /\ ~is_step_valid(g, T[<<r, c-1>>][1], STEP_DIRECTION_RIGHT)

\* variant of Pick: equal gold keeps from_above
PickAboveOnTie(fa, fl, old) ==
  IF has_value(fa) /\ has_value(fl)
  THEN IF total_gold(fa[1]) >= total_gold(fl[1]) THEN fa ELSE fl
  ELSE IF has_value(fa) THEN fa
  ELSE IF has_value(fl) THEN fl
  ELSE old
\* variant of Pick: from_above is taken whenever it is present
PickAbove(fa, fl, old) ==
  IF has_value(fa) THEN fa
  ELSE IF has_value(fl) THEN fl
  ELSE old
\* the value assigned to A[i][j]; old is what the entry holds
Pick(fa, fl, old) ==
  IF has_value(fa) /\ has_value(fl)
  THEN IF total_gold(fa[1]) > total_gold(fl[1]) THEN fa ELSE fl
  ELSE IF has_value(fa) THEN fa
  ELSE IF has_value(fl) THEN fl
  ELSE old

DpAssertFail ==
  /\ pc = "dp_start"
  /\ ~(grid.rows > 0 /\ grid.columns > 0)
  /\ dpOutcome' = "assert"
  /\ pc' = "done"
  /\ UNCHANGED <<grid, A, i, j, from_above, from_left, filled, skipped, dbest, dpResult>>
  /\ UNCHANGED exhVars

DpBegin ==
  /\ pc = "dp_start"
  /\ grid.rows > 0 /\ grid.columns > 0
  /\ A' = NewTable(grid)
  /\ i' = 0 /\ j' = 0
  /\ pc' = "dp_fill"
  /\ UNCHANGED <<grid, from_above, from_left, filled, skipped, dbest, dpOutcome, dpResult>>
  /\ UNCHANGED exhVars

\* the next (i, j) of the two nested loops
NextCell ==
  IF j + 1 <= grid.columns - 1
  THEN i' = i /\ j' = j + 1
  ELSE i' = i + 1 /\ j' = 0

DpFill ==
  /\ pc = "dp_fill"
  /\ i <= grid.rows - 1
  /\ IF IsRock(grid, i, j)
     THEN /\ A' = [A EXCEPT ![<<i, j>>] = nullopt]
          /\ from_above' = nullopt /\ from_left' = nullopt
          /\ filled' = <<>>
          /\ UNCHANGED skipped
     ELSE /\ from_above' = FromAbove(grid, A, i, j)
          /\ from_left' = FromLeft(grid, A, i, j)
          /\ A' = [A EXCEPT ![<<i, j>>] =
                     Pick(FromAbove(grid, A, i, j), FromLeft(grid, A, i, j), @)]
          /\ filled' = <<i, j>>
          /\ skipped' = (skipped \/ SkipsStep(grid, A, i, j))
  /\ NextCell
  /\ UNCHANGED <<grid, pc, dbest, dpOutcome, dpResult>>
  /\ UNCHANGED exhVars

\* best = A[0][0]
DpBestInit ==
  /\ pc = "dp_fill"
  /\ i > grid.rows - 1
  /\ dbest' = A[<<0, 0>>]
  /\ i' = 0 /\ j' = 0
  /\ pc' = "dp_scan"
  /\ UNCHANGED <<grid, A, from_above, from_left, filled, skipped, dpOutcome, dpResult>>
  /\ UNCHANGED exhVars

\* A[i][j].has_value() && A[i][j]->total_gold() > best->total_gold(); the
\* read of best->total_gold() when best is nullopt is undefined and may
\* compare either way
ScanTakes ==
  IF ~has_value(A[<<i, j>>]) THEN {FALSE}
  ELSE IF has_value(dbest)
       THEN {total_gold(A[<<i, j>>][1]) > total_gold(dbest[1])}
       ELSE BOOLEAN

DpScan ==
  /\ pc = "dp_scan"
  /\ i <= grid.rows - 1
  /\ \E t \in ScanTakes : dbest' = IF t THEN A[<<i, j>>] ELSE dbest
  /\ NextCell
  /\ UNCHANGED <<grid, pc, A, from_above, from_left, filled, skipped, dpOutcome, dpResult>>
  /\ UNCHANGED exhVars

DpReturn ==
  /\ pc = "dp_scan"
  /\ i > grid.rows - 1
  /\ has_value(dbest)
  /\ dpResult' = dbest
  /\ dpOutcome' = "returned"
  /\ pc' = "done"
  /\ UNCHANGED <<grid, A, i, j, from_above, from_left, filled, skipped, dbest>>
  /\ UNCHANGED exhVars

\* what a copy of *best can be when best is nullopt: the storage of a
\* disengaged optional, any head, any short move list, any gold
GarbagePaths ==
  [row : 0..1, col : 0..1,
   steps : {<<>>, <<STEP_DIRECTION_RIGHT>>, <<STEP_DIRECTION_DOWN>>},
   gold : 0..MaxGold]

\* return *best with best == nullopt: undefined behaviour, the call crashes
\* or returns whatever the storage holds
DpReturnAbsent ==
  /\ pc = "dp_scan"
  /\ i > grid.rows - 1
  /\ ~has_value(dbest)
  /\ \/ dpOutcome' = "crash" /\ dpResult' = nullopt
     \/ \E p \in GarbagePaths : dpOutcome' = "undefined" /\ dpResult' = Some(p)
  /\ pc' = "done"
  /\ UNCHANGED <<grid, A, i, j, from_above, from_left, filled, skipped, dbest>>
  /\ UNCHANGED exhVars

Init ==
  /\ grid \in Grids
  /\ pc = "exh_start"
  /\ len = 0 /\ bits = 0
  /\ best = nullopt /\ cand = nullopt /\ candLen = 0 /\ ncand = 0
  /\ produced = {}
  /\ exhOutcome = "none" /\ exhResult = nullopt
  /\ A = <<>>
  /\ i = 0 /\ j = 0
  /\ from_above = nullopt /\ from_left = nullopt
  /\ filled = <<>>
  /\ skipped = FALSE
  /\ dbest = nullopt
  /\ dpOutcome = "none" /\ dpResult = nullopt

Next ==
  \/ ExhAssertFail
  \/ ExhBegin
  \/ ExhCandidate
  \/ ExhNextLen
  \/ ExhReturn
  \/ DpAssertFail
  \/ DpBegin
  \/ DpFill
  \/ DpBestInit
  \/ DpScan
  \/ DpReturn
  \/ DpReturnAbsent

Spec == Init /\ [][Next]_vars

\* ---- reference notions the properties are stated with ----

Moves == {STEP_DIRECTION_RIGHT, STEP_DIRECTION_DOWN}

CountOf(s, n, dir) == Cardinality({k \in 1..n : s[k] = dir})

\* the cell reached after the first n moves of s, replayed from (0,0)
RowAfter(s, n) == CountOf(s, n, STEP_DIRECTION_DOWN)
ColAfter(s, n) == CountOf(s, n, STEP_DIRECTION_RIGHT)

\* the last move of s enters a cell of the grid that is not a rock
LastMoveValid(g, s) ==
  /\ InGrid(g, RowAfter(s, Len(s)), ColAfter(s, Len(s)))
  /\ ~IsRock(g, RowAfter(s, Len(s)), ColAfter(s, Len(s)))

\* S and every extension of a sequence of S by moves that each enter a cell
\* of the grid that is not a rock
RECURSIVE Extensions(_, _)
Extensions(g, S) ==
  IF S = {} THEN {}
  ELSE S \cup Extensions(g, {t \in {Append(s, m) : s \in S, m \in Moves} :
                                LastMoveValid(g, t)})

\* the move sequences from (0,0) whose every move enters a cell of the grid
\* that is not a rock; the start cell itself is not looked at
CheckedPaths(g) == Extensions(g, {<<>>})

\* the valid monotone paths: the start cell and every cell entered are cells
\* of the grid and none is a rock
ValidPaths(g) ==
  IF InGrid(g, 0, 0) /\ ~IsRock(g, 0, 0) THEN CheckedPaths(g) ELSE {}

RECURSIVE SumGold(_, _, _)
SumGold(g, s, n) ==
  IF n < 0 THEN 0
  ELSE g.cells[<<RowAfter(s, n), ColAfter(s, n)>>] + SumGold(g, s, n - 1)

\* the gold of the cells a valid path visits, start cell included
GoldOf(g, s) == SumGold(g, s, Len(s))

MaxOf(S) == CHOOSE m \in S : \A x \in S : x <= m

Optimum(g) == MaxOf({GoldOf(g, s) : s \in ValidPaths(g)})

EndsAt(g, r, c) ==
  {s \in ValidPaths(g) : RowAfter(s, Len(s)) = r /\ ColAfter(s, Len(s)) = c}

StartOpen(g) == g.rows > 0 /\ g.columns > 0 /\ ~IsRock(g, 0, 0)

\* a path value that is valid on g: moves are RIGHT/DOWN, every visited cell
\* is in the grid and no rock, and the replay of the moves is the head
ValidPathValue(g, p) ==
  /\ \A k \in 1..Len(p.steps) : p.steps[k] \in Moves
  /\ p.steps \in ValidPaths(g)
  /\ p.row = RowAfter(p.steps, Len(p.steps))
  /\ p.col = ColAfter(p.steps, Len(p.steps))

SomeRock(g) == \E p \in DOMAIN g.cells : g.cells[p] = CELL_ROCK

\* ---- C1 ----
\* C1: on a grid whose start cell is open (gold is never negative), the path
\* returned by the exhaustive search and the path returned by the dynamic
\* programming search have the same total gold.
C1_Agreement ==
  (exhOutcome = "returned" /\ dpOutcome = "returned" /\ StartOpen(grid))
    => total_gold(exhResult[1]) = total_gold(dpResult[1])

C1_Witness ==
  /\ exhOutcome = "returned" /\ dpOutcome = "returned" /\ StartOpen(grid)
  /\ SomeRock(grid)
  /\ Len(dpResult[1].steps) >= 2
  /\ total_gold(exhResult[1]) >= 2

\* ---- C2 ----
\* C2: on a grid whose start cell is open, the exhaustive search returns a
\* path whose total gold is the maximum, over all valid monotone paths from
\* (0,0) that may stop at any cell, of the gold of the cells visited.
C2_ExhaustiveOptimal ==
  (exhOutcome = "returned" /\ StartOpen(grid))
    => total_gold(exhResult[1]) = Optimum(grid)

C2_Witness ==
  /\ exhOutcome = "returned" /\ StartOpen(grid)
  /\ SomeRock(grid)
  /\ Optimum(grid) > GoldAt(grid, 0, 0)
  /\ Len(exhResult[1].steps) >= 2

\* ---- C3 ----
\* C3: every path returned by either search visits only cells of the grid
\* that are not rocks, moves only RIGHT or DOWN, and the replay of its moves
\* from (0,0) ends at its head.
C3_ReturnedPathsValid ==
  /\ exhResult # nullopt => ValidPathValue(grid, exhResult[1])
  /\ dpResult # nullopt => ValidPathValue(grid, dpResult[1])

\* ---- C4 ----
\* C4: once the first candidate has taken the place of the "no path yet"
\* sentinel, the exhaustive search replaces best only by a candidate of
\* strictly greater total gold.
C4_ReplaceOnlyWhenStrictlyBetter ==
  [][(pc = "exh_loop" /\ ncand' = ncand + 1 /\ ncand > 0 /\ best' # best)
       => total_gold(best'[1]) > total_gold(best[1])]_vars

\* ---- C5 ----
BothPresent == filled # <<>> /\ has_value(from_above) /\ has_value(from_left)

StartEnclosed(g) ==
  /\ ~is_step_valid(g, NewPath(g), STEP_DIRECTION_RIGHT)
  /\ ~is_step_valid(g, NewPath(g), STEP_DIRECTION_DOWN)

ValidOptimal(g, p) == ValidPathValue(g, p) /\ total_gold(p) = Optimum(g)

\* C7: a call of either search ends at one of the fatal assertions or
\* returns a valid, optimal path; nothing else happens.
C7_AssertOrValidOptimal ==
  /\ \/ exhOutcome = "none"
     \/ exhOutcome = "assert"
          /\ ~(grid.rows > 0 /\ grid.columns > 0 /\ max_steps(grid) < StepLimit)
     \/ exhOutcome = "returned" /\ ValidOptimal(grid, exhResult[1])
  /\ \/ dpOutcome = "none"
     \/ dpOutcome = "assert" /\ ~(grid.rows > 0 /\ grid.columns > 0)
     \/ dpOutcome = "returned" /\ ValidOptimal(grid, dpResult[1])

\* ---- C8 ----
\* C8: during and after the table fill every present entry A[i][j] is a path
\* whose head is (i,j), and no is_step_valid check of the fill is ever false,
\* so the step is always appended.
C8_HeadInvariant ==
  /\ ~skipped
  /\ \A p \in DOMAIN A :
       has_value(A[p]) => A[p][1].row = p[1] /\ A[p][1].col = p[2]
  /\ BothPresent =>
       /\ last_step(from_above[1]) = STEP_DIRECTION_DOWN
       /\ last_step(from_left[1]) = STEP_DIRECTION_RIGHT
       /\ from_above[1].row = filled[1] /\ from_above[1].col = filled[2]
       /\ from_left[1].row = filled[1] /\ from_left[1].col = filled[2]

C8_Witness ==
  /\ pc = "dp_fill"
  /\ BothPresent
  /\ filled[1] >= 1 /\ filled[2] >= 2
  /\ SomeRock(grid)

\* ---- C9 ----
\* C9: when the table fill is over, A[i][j] is absent exactly when no valid
\* monotone path from (0,0) ends at (i,j), and a present A[i][j] has the
\* maximum total gold of the valid paths that end at (i,j).
C9_OptimalSubstructure ==
  pc \in {"dp_scan", "done"} =>
    \A p \in DOMAIN A :
      /\ ~has_value(A[p]) <=> EndsAt(grid, p[1], p[2]) = {}
      /\ has_value(A[p]) =>
           total_gold(A[p][1]) =
             MaxOf({GoldOf(grid, s) : s \in EndsAt(grid, p[1], p[2])})

C9_Witness ==
  /\ pc = "dp_scan"
  /\ StartOpen(grid)
  /\ \E p \in DOMAIN A : ~has_value(A[p]) /\ ~IsRock(grid, p[1], p[2])
  /\ \E p \in DOMAIN A :
       has_value(A[p]) /\ p # <<0, 0>> /\ total_gold(A[p][1]) >= 1

====
